---- MODULE Spec2Model ----
(***************************************************************************)
(* FlashFix: the schema, row level security policies and admin procedures *)
(* of the database script (src/unnamed/part_000) and the application      *)
(* state controller of src/App.tsx.                                        *)
(*                                                                         *)
(* The policies are modelled by the meaning of their expressions: each    *)
(* role lookup "(SELECT role FROM public.profiles WHERE id = auth.uid())" *)
(* is the profile role of the caller, NULL when the caller has no profile *)
(* row, and a policy admits a row only when its expression is TRUE under  *)
(* SQL's three-valued logic.                                               *)
(***************************************************************************)
EXTENDS Integers, Sequences, FiniteSets, Bags, TLC

VARIABLES
  \* ---- database (src/unnamed/part_000) ----
  users,          \* auth.users: the set of identities
  profiles,       \* public.profiles: identity -> role
  contractorsT,   \* public.contractors: id -> [user_id, name, rating]
  jobsT,          \* public.jobs: id -> [unit, status, contractor_id]
  contractorSeq,  \* last value of contractors.id's identity sequence
  jobSeq,         \* last value of jobs.id's identity sequence
  \* ---- application state controller (src/App.tsx) ----
  session,        \* the session's user id, or NULL
  userRole,       \* the resolved role, or NULL
  loading,        \* the loading flag
  jobs,           \* the local job list
  contractors,    \* the local contractors list
  getSessionPending, \* the initial getSession() has not resolved
  signingOut,     \* handleSignOut awaits supabase.auth.signOut()
  requests,       \* requests in flight: role lookups, updates, re-fetches
  loads,          \* loadData calls awaiting their two fetches
  calls           \* user and auth events so far

dbVars == <<users, profiles, contractorsT, jobsT, contractorSeq, jobSeq>>
appVars == <<session, userRole, loading, jobs, contractors, getSessionPending,
             signingOut, requests, loads, calls>>
vars == <<users, profiles, contractorsT, jobsT, contractorSeq, jobSeq,
          session, userRole, loading, jobs, contractors, getSessionPending,
          signingOut, requests, loads, calls>>

----------------------------------------------------------------------------
(* Bounds of the model *)

\* identity values the contractors sequence may hand out
MaxContractorId == 4
\* identity values the jobs sequence may hand out
MaxJobId == 1
\* user and auth events (sign-in, refresh, sign-out, assign, status update)
MaxCalls == 2
\* requests in flight beside the loads' fetches
MaxInFlight == 2
\* loadData calls in flight
MaxLoads == 2

----------------------------------------------------------------------------
(* Values *)

Null == "null"
\* a NULL in a BIGINT column (identity columns start at 1)
NullId == 0

Identities == {"u1", "u2"}
\* auth.uid() of a request: an identity, or NULL for an unauthenticated one
Callers == Identities \cup {Null}

Roles == {"pm", "contractor", "admin"}
\* what raw_user_meta_data->>'role' may hold at signup
RoleClaims == Roles \cup {Null, "owner"}
Statuses == {"Pending", "In Progress", "Completed"}

\* NUMERIC(2,1) ratings in tenths
\* a rating is {} (NULL) or {n}
NameInputs == {"New Co."}
UnitInputs == {"101"}

\* SQL's three-valued logic
T == "TRUE"
F == "FALSE"
U == "NULL"

SqlEq(a, b) == IF a = Null \/ b = Null THEN U ELSE IF a = b THEN T ELSE F
SqlEqId(a, b) == IF a = NullId \/ b = NullId THEN U ELSE IF a = b THEN T ELSE F
SqlAnd(a, b) == IF a = F \/ b = F THEN F ELSE IF a = U \/ b = U THEN U ELSE T
SqlOr(a, b) == IF a = T \/ b = T THEN T ELSE IF a = U \/ b = U THEN U ELSE F
\* x IN (set of non-NULL ids)
SqlInId(x, S) == IF x = NullId THEN U ELSE IF x \in S THEN T ELSE F

----------------------------------------------------------------------------
(* Tables as created by Steps 1..5, and the sample rows of Step 11 *)

SampleContractors ==
  (1 :> [user_id |-> Null, name |-> "Mike's Maintenance", rating |-> {48}]) @@
  (2 :> [user_id |-> Null, name |-> "Cleaning Crew Co.", rating |-> {49}]) @@
  (3 :> [user_id |-> Null, name |-> "Sparkle & Shine", rating |-> {47}])

Empty == [x \in {} |-> Null]

\* remove key k from function f
Without(f, k) == [x \in (DOMAIN f) \ {k} |-> f[x]]

\* CHECK (role IN ('pm', 'contractor', 'admin')) NOT NULL
RoleCheck(role) == role # Null /\ role \in Roles
\* a check of the lower bound only
RatingCheck_NoUpperBound(rating) == \A r \in rating : r >= 0
\* CHECK (rating >= 0 AND rating <= 5): a NULL rating passes (the check is not FALSE)
RatingCheck(rating) == \A r \in rating : r >= 0 /\ r <= 50
\* NOT NULL ... CHECK (status IN ('Pending', 'In Progress', 'Completed'))
StatusCheck(status) == status # Null /\ status \in Statuses
\* user_id UUID UNIQUE REFERENCES auth.users(id)
UserIdCheck(id, user_id) ==
  user_id = Null \/
    (/\ user_id \in users
     /\ \A c \in (DOMAIN contractorsT) \ {id} : contractorsT[c].user_id # user_id)
\* contractor_id BIGINT REFERENCES public.contractors(id)
ContractorIdCheck(contractor_id) ==
  contractor_id = NullId \/ contractor_id \in DOMAIN contractorsT

----------------------------------------------------------------------------
(* Row level security policies, Steps 7..9 *)

\* (SELECT role FROM public.profiles WHERE id = auth.uid())
RoleOf(uid) ==
  LET rows == {p \in DOMAIN profiles : SqlEq(p, uid) = T}
  IN  IF rows = {} THEN Null ELSE profiles[CHOOSE p \in rows : TRUE]

\* the authenticated database role: a request that carries an identity
Authenticated(uid) == uid # Null

AdminProfilesPolicy(uid) == SqlEq(RoleOf(uid), "admin")
\* a policy that admits no row
OwnProfilePolicy_Denied(uid, id) == F
OwnProfilePolicy(uid, id) == SqlEq(uid, id)

AdminContractorsPolicy(uid) == SqlEq(RoleOf(uid), "admin")
ReadContractorsPolicy(uid) == IF Authenticated(uid) THEN T ELSE F
\* the policy written as "the caller is not a contractor"
PmContractorsPolicy_NotContractor(uid) ==
  IF SqlEq(RoleOf(uid), "contractor") = T THEN F ELSE T
PmContractorsPolicy(uid) == SqlEq(RoleOf(uid), "pm")

AdminJobsPolicy(uid) == SqlEq(RoleOf(uid), "admin")
PmReadJobsPolicy(uid) == SqlEq(RoleOf(uid), "pm")
PmCreateJobsPolicy(uid) == SqlEq(RoleOf(uid), "pm")
PmUpdateJobsPolicy(uid) == SqlEq(RoleOf(uid), "pm")
\* the sub-query without its WHERE user_id = auth.uid()
OwnContractorIds_Unfiltered(uid) == DOMAIN contractorsT

\* contractor_id IN (SELECT id FROM public.contractors WHERE user_id = auth.uid())
OwnContractorIds(uid) ==
  {c \in DOMAIN contractorsT : SqlEq(contractorsT[c].user_id, uid) = T}
ContractorReadJobsPolicy(uid, row) ==
  SqlAnd(SqlEq(RoleOf(uid), "contractor"),
         SqlInId(row.contractor_id, OwnContractorIds(uid)))
ContractorUpdateJobsPolicy(uid, row) ==
  SqlAnd(SqlEq(RoleOf(uid), "contractor"),
         SqlInId(row.contractor_id, OwnContractorIds(uid)))

\* Permissive policies of one command are OR-ed; FOR ALL policies count for
\* every command; a row passes when the result is TRUE.
ProfilesSelect(uid, id) ==
  SqlOr(AdminProfilesPolicy(uid), OwnProfilePolicy(uid, id)) = T
ProfilesInsert(uid, id) == AdminProfilesPolicy(uid) = T
ProfilesUpdate(uid, id) == AdminProfilesPolicy(uid) = T
ProfilesDelete(uid, id) == AdminProfilesPolicy(uid) = T

ContractorsSelect(uid, row) ==
  SqlOr(AdminContractorsPolicy(uid),
        SqlOr(ReadContractorsPolicy(uid), PmContractorsPolicy(uid))) = T
ContractorsInsert(uid, row) ==
  SqlOr(AdminContractorsPolicy(uid), PmContractorsPolicy(uid)) = T
ContractorsUpdate(uid, row) ==
  SqlOr(AdminContractorsPolicy(uid), PmContractorsPolicy(uid)) = T
ContractorsDelete(uid, row) ==
  SqlOr(AdminContractorsPolicy(uid), PmContractorsPolicy(uid)) = T

JobsSelect(uid, row) ==
  SqlOr(AdminJobsPolicy(uid),
        SqlOr(PmReadJobsPolicy(uid), ContractorReadJobsPolicy(uid, row))) = T
JobsInsert(uid, row) ==
  SqlOr(AdminJobsPolicy(uid), PmCreateJobsPolicy(uid)) = T
JobsUpdate(uid, row) ==
  SqlOr(AdminJobsPolicy(uid),
        SqlOr(PmUpdateJobsPolicy(uid), ContractorUpdateJobsPolicy(uid, row))) = T
JobsDelete(uid, row) == AdminJobsPolicy(uid) = T

----------------------------------------------------------------------------
(* Statements against the tables, as the data API runs them for a caller.  *)
(* An outcome is "ok" (rows written), "none" (no row admitted by the       *)
(* policies: zero rows, no error) or the error raised.                     *)

\* SELECT ... FROM public.jobs: the ids of the rows returned
SelectJobsRows(caller) == {j \in DOMAIN jobsT : JobsSelect(caller, jobsT[j])}
SelectJobs(caller) ==
  /\ SelectJobsRows(caller) \subseteq DOMAIN jobsT
  /\ UNCHANGED <<users, profiles, contractorsT, jobsT, contractorSeq, jobSeq>>

\* INSERT INTO public.jobs: the identity value is drawn first, then the
\* policies' WITH CHECK, then the constraints
InsertJobOutcome(caller, row) ==
  IF ~JobsInsert(caller, row) THEN "rls"
  ELSE IF ~StatusCheck(row.status) THEN "check"
  ELSE IF ~ContractorIdCheck(row.contractor_id) THEN "fk"
  ELSE "ok"
InsertJob(caller, row) ==
  /\ jobSeq < MaxJobId
  /\ jobSeq' = jobSeq + 1
  /\ jobsT' = IF InsertJobOutcome(caller, row) = "ok"
                THEN jobsT @@ (jobSeq' :> row) ELSE jobsT
  /\ UNCHANGED <<users, profiles, contractorsT, contractorSeq>>

\* UPDATE public.jobs SET ... WHERE id = id: a row the SELECT and UPDATE
\* policies admit is updated; the new row must pass the same policies
UpdateJobOutcome(caller, id, row) ==
  IF ~(JobsSelect(caller, jobsT[id]) /\ JobsUpdate(caller, jobsT[id])) THEN "none"
  ELSE IF ~(JobsUpdate(caller, row) /\ JobsSelect(caller, row)) THEN "rls"
  ELSE IF ~StatusCheck(row.status) THEN "check"
  ELSE IF ~ContractorIdCheck(row.contractor_id) THEN "fk"
  ELSE "ok"
UpdateJob(caller, id, row) ==
  /\ id \in DOMAIN jobsT
  /\ jobsT' = IF UpdateJobOutcome(caller, id, row) = "ok"
                THEN [jobsT EXCEPT ![id] = row] ELSE jobsT
  /\ UNCHANGED <<users, profiles, contractorsT, contractorSeq, jobSeq>>

\* DELETE FROM public.jobs WHERE id = id
DeleteJobOutcome(caller, id) ==
  IF JobsSelect(caller, jobsT[id]) /\ JobsDelete(caller, jobsT[id])
    THEN "ok" ELSE "none"
DeleteJob(caller, id) ==
  /\ id \in DOMAIN jobsT
  /\ jobsT' = IF DeleteJobOutcome(caller, id) = "ok" THEN Without(jobsT, id) ELSE jobsT
  /\ UNCHANGED <<users, profiles, contractorsT, contractorSeq, jobSeq>>

\* SELECT ... FROM public.contractors
SelectContractorsRows(caller) ==
  {c \in DOMAIN contractorsT : ContractorsSelect(caller, contractorsT[c])}
SelectContractors(caller) ==
  /\ SelectContractorsRows(caller) \subseteq DOMAIN contractorsT
  /\ UNCHANGED <<users, profiles, contractorsT, jobsT, contractorSeq, jobSeq>>

\* INSERT INTO public.contractors
InsertContractorOutcome(caller, id, row) ==
  IF ~ContractorsInsert(caller, row) THEN "rls"
  ELSE IF ~RatingCheck(row.rating) THEN "check"
  ELSE IF ~UserIdCheck(id, row.user_id) THEN "fk"
  ELSE "ok"
InsertContractor(caller, row) ==
  /\ contractorSeq < MaxContractorId
  /\ contractorSeq' = contractorSeq + 1
  /\ contractorsT' = IF InsertContractorOutcome(caller, contractorSeq', row) = "ok"
                       THEN contractorsT @@ (contractorSeq' :> row) ELSE contractorsT
  /\ UNCHANGED <<users, profiles, jobsT, jobSeq>>

\* UPDATE public.contractors SET ... WHERE id = id
UpdateContractorOutcome(caller, id, row) ==
  IF ~(ContractorsSelect(caller, contractorsT[id])
       /\ ContractorsUpdate(caller, contractorsT[id])) THEN "none"
  ELSE IF ~(ContractorsUpdate(caller, row) /\ ContractorsSelect(caller, row)) THEN "rls"
  ELSE IF ~RatingCheck(row.rating) THEN "check"
  ELSE IF ~UserIdCheck(id, row.user_id) THEN "fk"
  ELSE "ok"
UpdateContractor(caller, id, row) ==
  /\ id \in DOMAIN contractorsT
  /\ contractorsT' = IF UpdateContractorOutcome(caller, id, row) = "ok"
                       THEN [contractorsT EXCEPT ![id] = row] ELSE contractorsT
  /\ UNCHANGED <<users, profiles, jobsT, contractorSeq, jobSeq>>

\* the reference declared ON DELETE CASCADE
JobsAfterContractorDelete_Cascade(id) ==
  [j \in {k \in DOMAIN jobsT : jobsT[k].contractor_id # id} |-> jobsT[j]]

\* jobs.contractor_id ... REFERENCES public.contractors(id) ON DELETE SET NULL
JobsAfterContractorDelete(id) ==
  [j \in DOMAIN jobsT |->
     IF jobsT[j].contractor_id = id
       THEN [jobsT[j] EXCEPT !.contractor_id = NullId]
       ELSE jobsT[j]]

\* DELETE FROM public.contractors WHERE id = id
DeleteContractorOutcome(caller, id) ==
  IF ContractorsSelect(caller, contractorsT[id])
     /\ ContractorsDelete(caller, contractorsT[id])
    THEN "ok" ELSE "none"
DeleteContractor(caller, id) ==
  /\ id \in DOMAIN contractorsT
  /\ IF DeleteContractorOutcome(caller, id) = "ok"
       THEN /\ contractorsT' = Without(contractorsT, id)
            /\ jobsT' = JobsAfterContractorDelete(id)
       ELSE UNCHANGED <<contractorsT, jobsT>>
  /\ UNCHANGED <<users, profiles, contractorSeq, jobSeq>>

\* SELECT ... FROM public.profiles
SelectProfilesRows(caller) == {p \in DOMAIN profiles : ProfilesSelect(caller, p)}
SelectProfiles(caller) ==
  /\ SelectProfilesRows(caller) \subseteq DOMAIN profiles
  /\ UNCHANGED <<users, profiles, contractorsT, jobsT, contractorSeq, jobSeq>>

\* INSERT INTO public.profiles (id, role)
InsertProfileOutcome(caller, id, role) ==
  IF ~ProfilesInsert(caller, id) THEN "rls"
  ELSE IF ~RoleCheck(role) THEN "check"
  ELSE IF id \in DOMAIN profiles THEN "unique"
  ELSE IF id \notin users THEN "fk"
  ELSE "ok"
InsertProfile(caller, id, role) ==
  /\ profiles' = IF InsertProfileOutcome(caller, id, role) = "ok"
                   THEN profiles @@ (id :> role) ELSE profiles
  /\ UNCHANGED <<users, contractorsT, jobsT, contractorSeq, jobSeq>>

\* UPDATE public.profiles SET role = role WHERE id = id
UpdateProfileOutcome(caller, id, role) ==
  IF ~(ProfilesSelect(caller, id) /\ ProfilesUpdate(caller, id)) THEN "none"
  ELSE IF ~RoleCheck(role) THEN "check"
  ELSE "ok"
UpdateProfile(caller, id, role) ==
  /\ id \in DOMAIN profiles
  /\ profiles' = IF UpdateProfileOutcome(caller, id, role) = "ok"
                   THEN [profiles EXCEPT ![id] = role] ELSE profiles
  /\ UNCHANGED <<users, contractorsT, jobsT, contractorSeq, jobSeq>>

\* DELETE FROM public.profiles WHERE id = id
DeleteProfileOutcome(caller, id) ==
  IF ProfilesSelect(caller, id) /\ ProfilesDelete(caller, id) THEN "ok" ELSE "none"
DeleteProfile(caller, id) ==
  /\ id \in DOMAIN profiles
  /\ profiles' = IF DeleteProfileOutcome(caller, id) = "ok"
                   THEN Without(profiles, id) ELSE profiles
  /\ UNCHANGED <<users, contractorsT, jobsT, contractorSeq, jobSeq>>

----------------------------------------------------------------------------
(* Signup and the admin procedures, Steps 2, 3 and 10 *)

\* a trigger that ignores the claim
handle_new_user_DefaultRole(id, claim) == profiles @@ (id :> "contractor")

\* handle_new_user: INSERT INTO public.profiles (id, role) VALUES (new.id, claim)
handle_new_user(id, claim) == profiles @@ (id :> claim)

\* INSERT INTO auth.users, with trigger on_auth_user_created: a claim the
\* profiles constraints reject raises inside the trigger and the signup fails
SignUpOutcome(id, claim) == IF RoleCheck(claim) THEN "ok" ELSE "check"
SignUp(id, claim) ==
  /\ id \notin users
  /\ IF SignUpOutcome(id, claim) = "ok"
       THEN /\ users' = users \cup {id}
            /\ profiles' = handle_new_user(id, claim)
       ELSE UNCHANGED <<users, profiles>>
  /\ UNCHANGED <<contractorsT, jobsT, contractorSeq, jobSeq>>

\* the check without its AND p.role = 'admin'
IsAdminCaller_AnyProfile(caller) ==
  \E p \in DOMAIN profiles : SqlEq(p, caller) = T

\* EXISTS (SELECT 1 FROM public.profiles p WHERE p.id = auth.uid() AND p.role = 'admin')
IsAdminCaller(caller) ==
  \E p \in DOMAIN profiles :
    SqlAnd(SqlEq(p, caller), SqlEq(profiles[p], "admin")) = T

\* get_all_users(): the exception raised, or the rows returned
GetAllUsersResult(caller) ==
  IF ~IsAdminCaller(caller)
    THEN [error |-> "Only admins can view all users", rows |-> {}]
    ELSE [error |-> Null,
          rows |-> {[id |-> u, role |-> profiles[u]] : u \in users \cap DOMAIN profiles}]
get_all_users(caller) ==
  /\ GetAllUsersResult(caller).rows \subseteq [id : users, role : Roles]
  /\ UNCHANGED <<users, profiles, contractorsT, jobsT, contractorSeq, jobSeq>>

\* profiles.id ... REFERENCES auth.users(id) ON DELETE CASCADE
ProfilesAfterUserDelete(id) == [p \in (DOMAIN profiles) \ {id} |-> profiles[p]]

\* contractors.user_id ... REFERENCES auth.users(id) ON DELETE SET NULL
ContractorsAfterUserDelete(id) ==
  [c \in DOMAIN contractorsT |->
     IF contractorsT[c].user_id = id
       THEN [contractorsT[c] EXCEPT !.user_id = Null]
       ELSE contractorsT[c]]

\* delete_user(user_id): the exception raised, or NULL
DeleteUserError(caller) ==
  IF ~IsAdminCaller(caller) THEN "Only admins can delete users" ELSE Null
\* delete_user(user_id): the tables after the call
DeleteUserEffect(caller, user_id) ==
  IF DeleteUserError(caller) # Null
    THEN [users |-> users, profiles |-> profiles,
          contractors |-> contractorsT, jobs |-> jobsT]
    ELSE [users |-> users \ {user_id},
          profiles |-> ProfilesAfterUserDelete(user_id),
          contractors |-> ContractorsAfterUserDelete(user_id),
          jobs |-> jobsT]
delete_user(caller, user_id) ==
  /\ users' = DeleteUserEffect(caller, user_id).users
  /\ profiles' = DeleteUserEffect(caller, user_id).profiles
  /\ contractorsT' = DeleteUserEffect(caller, user_id).contractors
  /\ jobsT' = DeleteUserEffect(caller, user_id).jobs
  /\ UNCHANGED <<contractorSeq, jobSeq>>

----------------------------------------------------------------------------
(* The database after the script has run, and the statements issued *)

InitDbTables ==
  /\ users = {}
  /\ profiles = Empty
  /\ contractorsT = SampleContractors
  /\ contractorSeq = 3
  /\ jobsT = Empty
  /\ jobSeq = 0

\* Inputs of the statements.  Contractor rows are addressed by the first
\* sample row and by the rows inserted after the script; the statements that
\* write are issued with an identity, reads and procedure calls also without.
ContractorIdInputs == {NullId, 1} \cup (4..MaxContractorId)
\* status defaults to 'Pending'; 'Cancelled' is a value the CHECK rejects
NewJobInputs ==
  [unit : UnitInputs, status : {"Pending", "Cancelled"}, contractor_id : ContractorIdInputs]
JobRowInputs ==
  [unit : UnitInputs, status : {"Pending", "In Progress", "Cancelled"},
   contractor_id : ContractorIdInputs]
\* a rating of 5.1 is a value the CHECK rejects
NewContractorInputs ==
  [user_id : Identities \cup {Null}, name : NameInputs, rating : {{50}, {51}}]
ContractorRowInputs(id) ==
  [user_id : Identities \cup {Null},
   name : {contractorsT[id].name},
   rating : {contractorsT[id].rating, {51}}]

DbStatement ==
  \/ \E id \in Identities, claim \in RoleClaims : SignUp(id, claim)
  \/ \E caller \in Callers : get_all_users(caller)
  \/ \E caller \in Callers, id \in Identities : delete_user(caller, id)
  \/ \E caller \in Callers : SelectProfiles(caller)
  \/ \E caller \in Identities, id \in Identities, role \in RoleClaims :
       InsertProfile(caller, id, role)
  \/ \E caller \in Identities, id \in Identities, role \in RoleClaims :
       UpdateProfile(caller, id, role)
  \/ \E caller \in Identities, id \in Identities : DeleteProfile(caller, id)
  \/ \E caller \in Callers : SelectContractors(caller)
  \/ \E caller \in Identities, row \in NewContractorInputs :
       InsertContractor(caller, row)
  \/ \E caller \in Identities, id \in DOMAIN contractorsT \cap ContractorIdInputs :
       \E row \in ContractorRowInputs(id) : UpdateContractor(caller, id, row)
  \/ \E caller \in Identities, id \in DOMAIN contractorsT \cap ContractorIdInputs :
       DeleteContractor(caller, id)
  \/ \E caller \in Callers : SelectJobs(caller)
  \/ \E caller \in Identities, row \in NewJobInputs : InsertJob(caller, row)
  \/ \E caller \in Identities, id \in DOMAIN jobsT, row \in JobRowInputs :
       UpdateJob(caller, id, row)
  \/ \E caller \in Identities, id \in DOMAIN jobsT : DeleteJob(caller, id)

\* no client is running
AppNotMounted ==
  /\ session = Null
  /\ userRole = Null
  /\ loading = TRUE
  /\ jobs = << >>
  /\ contractors = << >>
  /\ getSessionPending = FALSE
  /\ signingOut = FALSE
  /\ requests = EmptyBag
  /\ loads = EmptyBag
  /\ calls = 0

InitDb == InitDbTables /\ AppNotMounted
NextDb == DbStatement /\ UNCHANGED appVars
SpecDb == InitDb /\ [][NextDb]_vars

----------------------------------------------------------------------------
(* The application state controller, src/App.tsx.  Requests are sent with  *)
(* the identity of the session at the time they are issued; the server     *)
(* runs them against the tables under the policies above, and the reply    *)
(* reaches the controller in a later step.                                 *)

\* a property a fetched job does not carry
Undefined == "undefined"

RECURSIVE IdsDescending(_)
\* the ids of S, greatest first
IdsDescending(S) ==
  IF S = {} THEN << >>
  ELSE LET m == CHOOSE x \in S : \A y \in S : y <= x
       IN  <<m>> \o IdsDescending(S \ {m})

\* the rows of .from('jobs').select('*, contractors(name)')
\*   .order('service_date', { ascending: false }) for a caller; the jobs are
\* taken to have been booked with increasing service dates
JobsQuery(caller) ==
  LET ids == IdsDescending(SelectJobsRows(caller))
  IN  [i \in 1..Len(ids) |->
        [id |-> ids[i],
         status |-> jobsT[ids[i]].status,
         contractor_id |-> jobsT[ids[i]].contractor_id,
         contractors |->
           IF jobsT[ids[i]].contractor_id \in SelectContractorsRows(caller)
             THEN contractorsT[jobsT[ids[i]].contractor_id].name
             ELSE Null]]

\* the names of the contractor rows in ascending order
NameOrder ==
  <<"Cleaning Crew Co.", "Mike's Maintenance", "New Co.", "Sparkle & Shine">>

RECURSIVE RowsByName(_, _)
RowsByName(S, n) ==
  IF n > Len(NameOrder) THEN << >>
  ELSE LET ids == IdsDescending({c \in S : contractorsT[c].name = NameOrder[n]})
       IN  [i \in 1..Len(ids) |-> [id |-> ids[i], name |-> NameOrder[n]]]
             \o RowsByName(S, n + 1)

\* the rows of .from('contractors').select('*').order('name', { ascending: true })
ContractorsQuery(caller) == RowsByName(SelectContractorsRows(caller), 1)

\* fetchJobs' data.map: contractor_name from the embedded row, which is then dropped
processedJobs(data) ==
  [i \in 1..Len(data) |->
     [id |-> data[i].id,
      status |-> data[i].status,
      contractor_id |-> data[i].contractor_id,
      contractor_name |->
        IF data[i].contractors # Null THEN data[i].contractors ELSE Undefined]]

\* contractors.find(c => c.id === contractorId): the matches, first one first
FindContractor(contractorId) ==
  SelectSeq(contractors, LAMBDA c : c.id = contractorId)

\* a map without the test of the job id
AssignedJobs_EveryJob(prevJobs, jobId, contractor) ==
  [i \in 1..Len(prevJobs) |->
     [prevJobs[i] EXCEPT !.contractor_id = contractor.id,
                         !.contractor_name = contractor.name,
                         !.status = "In Progress"]]

\* a map that sets the contractor and leaves the status alone
AssignedJobs_KeepStatus(prevJobs, jobId, contractor) ==
  [i \in 1..Len(prevJobs) |->
     IF prevJobs[i].id = jobId
       THEN [prevJobs[i] EXCEPT !.contractor_id = contractor.id,
                                !.contractor_name = contractor.name]
       ELSE prevJobs[i]]

\* handleAssignJob's prevJobs.map
AssignedJobs(prevJobs, jobId, contractor) ==
  [i \in 1..Len(prevJobs) |->
     IF prevJobs[i].id = jobId
       THEN [prevJobs[i] EXCEPT !.contractor_id = contractor.id,
                                !.contractor_name = contractor.name,
                                !.status = "In Progress"]
       ELSE prevJobs[i]]

\* a map that changes nothing
StatusUpdatedJobs_Untouched(prevJobs, jobId, status) == prevJobs

\* handleUpdateJobStatus' prevJobs.map
StatusUpdatedJobs(prevJobs, jobId, status) ==
  [i \in 1..Len(prevJobs) |->
     IF prevJobs[i].id = jobId
       THEN [prevJobs[i] EXCEPT !.status = status]
       ELSE prevJobs[i]]

\* A request in flight.  stage is "sent" until the server has run it and
\* "replied" until the controller has taken the reply.
Request(kind, cause, caller, job, contractor_id, status) ==
  [kind |-> kind, cause |-> cause, caller |-> caller, job |-> job,
   contractor_id |-> contractor_id, status |-> status,
   stage |-> "sent", error |-> FALSE, role |-> Null, rows |-> << >>]

\* .from('profiles').select('role').eq('id', session.user.id).single()
RoleLookup(caller) == Request("role", "session", caller, 0, NullId, Null)
\* .from('jobs').update({ contractor_id, status: 'In Progress' }).eq('id', jobId)
AssignUpdate(caller, jobId, contractorId) ==
  Request("assign", "user", caller, jobId, contractorId, "In Progress")
\* .from('jobs').update({ status }).eq('id', jobId)
StatusUpdate(caller, jobId, status) ==
  Request("status", "user", caller, jobId, NullId, status)
\* fetchJobs() called from a failed update's error branch
Refetch(caller, cause) == Request("fetchJobs", cause, caller, 0, NullId, Null)

Reply(r, error, role, rows) ==
  [r EXCEPT !.stage = "replied", !.error = error, !.role = role, !.rows = rows]

\* one fetch of a loadData call
FetchSent == [stage |-> "sent", error |-> FALSE, rows |-> << >>]
FetchReplied(error, rows) == [stage |-> "replied", error |-> error, rows |-> rows]
FetchDone == [stage |-> "done", error |-> FALSE, rows |-> << >>]
\* loadData: Promise.all([fetchJobs(), fetchContractors()])
Load(caller) == [caller |-> caller, jobs |-> FetchSent, contractors |-> FetchSent]

InFlight == BagCardinality(requests)
Loading == BagCardinality(loads)

\* The effect of lines 113..119, run after a render in which session or
\* userRole changed, with the values s and r of that render
LoadEffect(s, r) ==
  IF s # Null /\ r # Null
    THEN /\ Loading < MaxLoads
         /\ loading' = TRUE
         /\ loads' = loads (+) SetToBag({Load(s)})
    ELSE /\ loading' = FALSE
         /\ UNCHANGED loads

\* setSession(s) with a new session object, and the effects it triggers:
\* fetchUserRole (lines 44..65) sends the lookup or clears the role, and the
\* load effect runs with the role of this render
SetSession(s) ==
  /\ session' = s
  /\ IF s # Null
       THEN /\ InFlight < MaxInFlight
            /\ requests' = requests (+) SetToBag({RoleLookup(s)})
            /\ UNCHANGED userRole
            /\ LoadEffect(s, userRole)
       ELSE /\ userRole' = Null
            /\ UNCHANGED requests
            /\ LoadEffect(Null, Null)

\* getSession() resolves (lines 29..33) with the stored session, if any
GetSessionResolved(s) ==
  /\ getSessionPending
  /\ getSessionPending' = FALSE
  /\ IF s = Null /\ session = Null
       THEN UNCHANGED <<session, userRole, loading, requests, loads>>
       ELSE SetSession(s)
  /\ UNCHANGED <<jobs, contractors, signingOut, calls>>
  /\ UNCHANGED dbVars

\* onAuthStateChange (lines 35..37): a user signs in on the Auth screen
SignedIn(u) ==
  /\ session = Null
  /\ u \in users
  /\ calls < MaxCalls
  /\ calls' = calls + 1
  /\ SetSession(u)
  /\ UNCHANGED <<jobs, contractors, getSessionPending, signingOut>>
  /\ UNCHANGED dbVars

\* onAuthStateChange (lines 35..37): the token of the session is refreshed
\* and a new session object of the same user is delivered
TokenRefreshed ==
  /\ session # Null
  /\ calls < MaxCalls
  /\ calls' = calls + 1
  /\ SetSession(session)
  /\ UNCHANGED <<jobs, contractors, getSessionPending, signingOut>>
  /\ UNCHANGED dbVars

\* the server runs a role lookup: .single() is an error unless exactly one
\* row is returned; net = FALSE is a request that fails on the way
ServeRoleLookup(r, net) ==
  /\ BagIn(r, requests) /\ r.kind = "role" /\ r.stage = "sent"
  /\ LET rows == {p \in SelectProfilesRows(r.caller) : SqlEq(p, r.caller) = T}
     IN  requests' = (requests (-) SetToBag({r})) (+)
           SetToBag({IF net /\ Cardinality(rows) = 1
                       THEN Reply(r, FALSE, profiles[CHOOSE p \in rows : TRUE], << >>)
                       ELSE Reply(r, TRUE, Null, << >>)})
  /\ UNCHANGED <<session, userRole, loading, jobs, contractors,
                 getSessionPending, signingOut, loads, calls>>
  /\ UNCHANGED dbVars

\* fetchUserRole after its await (lines 52..57)
fetchUserRole(r) ==
  /\ BagIn(r, requests) /\ r.kind = "role" /\ r.stage = "replied"
  /\ requests' = requests (-) SetToBag({r})
  /\ LET role == IF r.error THEN Null ELSE r.role
     IN  /\ userRole' = role
         /\ IF role # userRole
              THEN LoadEffect(session, role)
              ELSE UNCHANGED <<loading, loads>>
  /\ UNCHANGED <<session, jobs, contractors, getSessionPending, signingOut, calls>>
  /\ UNCHANGED dbVars

\* the server runs the jobs query of a loadData call
ServeLoadJobs(l, net) ==
  /\ BagIn(l, loads) /\ l.jobs.stage = "sent"
  /\ loads' = (loads (-) SetToBag({l})) (+)
       SetToBag({[l EXCEPT !.jobs = IF net THEN FetchReplied(FALSE, JobsQuery(l.caller))
                                         ELSE FetchReplied(TRUE, << >>)]})
  /\ UNCHANGED <<session, userRole, loading, jobs, contractors,
                 getSessionPending, signingOut, requests, calls>>
  /\ UNCHANGED dbVars

\* the server runs the contractors query of a loadData call
ServeLoadContractors(l, net) ==
  /\ BagIn(l, loads) /\ l.contractors.stage = "sent"
  /\ loads' = (loads (-) SetToBag({l})) (+)
       SetToBag({[l EXCEPT !.contractors =
                    IF net THEN FetchReplied(FALSE, ContractorsQuery(l.caller))
                           ELSE FetchReplied(TRUE, << >>)]})
  /\ UNCHANGED <<session, userRole, loading, jobs, contractors,
                 getSessionPending, signingOut, requests, calls>>
  /\ UNCHANGED dbVars

\* loadData (lines 107..111): one fetch has resolved; setLoading(false)
\* follows when the other one has resolved too
LoadJoined(l, fetched) ==
  IF fetched.jobs.stage = "done" /\ fetched.contractors.stage = "done"
    THEN /\ loads' = loads (-) SetToBag({l})
         /\ loading' = FALSE
    ELSE /\ loads' = (loads (-) SetToBag({l})) (+) SetToBag({fetched})
         /\ UNCHANGED loading

\* fetchJobs after its await (lines 74..90), called by loadData
fetchJobs(l) ==
  /\ BagIn(l, loads) /\ l.jobs.stage = "replied"
  /\ jobs' = IF l.jobs.error THEN << >> ELSE processedJobs(l.jobs.rows)
  /\ LoadJoined(l, [l EXCEPT !.jobs = FetchDone])
  /\ UNCHANGED <<session, userRole, contractors, getSessionPending,
                 signingOut, requests, calls>>
  /\ UNCHANGED dbVars

\* fetchContractors after its await (lines 99..104), called by loadData
fetchContractors(l) ==
  /\ BagIn(l, loads) /\ l.contractors.stage = "replied"
  /\ contractors' = IF l.contractors.error THEN << >> ELSE l.contractors.rows
  /\ LoadJoined(l, [l EXCEPT !.contractors = FetchDone])
  /\ UNCHANGED <<session, userRole, jobs, getSessionPending,
                 signingOut, requests, calls>>
  /\ UNCHANGED dbVars

\* handleSignOut up to its await (line 122); the Header offers it while a
\* session is held
handleSignOut ==
  /\ session # Null
  /\ ~signingOut
  /\ calls < MaxCalls
  /\ calls' = calls + 1
  /\ signingOut' = TRUE
  /\ UNCHANGED <<session, userRole, loading, jobs, contractors,
                 getSessionPending, requests, loads>>
  /\ UNCHANGED dbVars

\* supabase.auth.signOut() resolves: the listener and lines 123..126 clear
\* the session, the role and the lists; the load effect clears the flag
SignedOut ==
  /\ signingOut
  /\ signingOut' = FALSE
  /\ session' = Null
  /\ userRole' = Null
  /\ jobs' = << >>
  /\ contractors' = << >>
  /\ IF session # Null \/ userRole # Null
       THEN LoadEffect(Null, Null)
       ELSE UNCHANGED <<loading, loads>>
  /\ UNCHANGED <<getSessionPending, requests, calls>>
  /\ UNCHANGED dbVars

\* the ids of the jobs in the local list
ListedJobs == {jobs[i].id : i \in 1..Len(jobs)}

\* handleAssignJob up to its await (lines 134..140); JobHistory is rendered
\* for a pm or an admin once the data is loaded, with the jobs of the list
handleAssignJob(jobId, contractorId) ==
  /\ session # Null /\ userRole \in {"pm", "admin"} /\ ~loading
  /\ jobId \in ListedJobs
  /\ calls < MaxCalls
  /\ calls' = calls + 1
  /\ IF FindContractor(contractorId) = << >>
       THEN UNCHANGED <<jobs, requests>>
       ELSE /\ InFlight < MaxInFlight
            /\ jobs' = AssignedJobs(jobs, jobId, FindContractor(contractorId)[1])
            /\ requests' = requests (+)
                 SetToBag({AssignUpdate(session, jobId, contractorId)})
  /\ UNCHANGED <<session, userRole, loading, contractors, getSessionPending,
                 signingOut, loads>>
  /\ UNCHANGED dbVars

\* handleUpdateJobStatus up to its await (lines 147..149); ContractorDashboard
\* is rendered for a contractor once the data is loaded, with the jobs of
\* the list
handleUpdateJobStatus(jobId, status) ==
  /\ session # Null /\ userRole = "contractor" /\ ~loading
  /\ jobId \in ListedJobs
  /\ calls < MaxCalls
  /\ calls' = calls + 1
  /\ InFlight < MaxInFlight
  /\ jobs' = StatusUpdatedJobs(jobs, jobId, status)
  /\ requests' = requests (+) SetToBag({StatusUpdate(session, jobId, status)})
  /\ UNCHANGED <<session, userRole, loading, contractors, getSessionPending,
                 signingOut, loads>>
  /\ UNCHANGED dbVars

\* the row an update request writes over the stored row
UpdatedRow(r) ==
  IF r.kind = "assign"
    THEN [jobsT[r.job] EXCEPT !.contractor_id = r.contractor_id, !.status = r.status]
    ELSE [jobsT[r.job] EXCEPT !.status = r.status]

\* the server runs an update request: rows the policies do not admit are
\* skipped without an error
ServeUpdate(r, net) ==
  /\ BagIn(r, requests) /\ r.kind \in {"assign", "status"} /\ r.stage = "sent"
  /\ LET outcome == IF ~net THEN "network"
                    ELSE IF r.job \notin DOMAIN jobsT THEN "none"
                    ELSE UpdateJobOutcome(r.caller, r.job, UpdatedRow(r))
     IN  /\ jobsT' = IF outcome = "ok"
                       THEN [jobsT EXCEPT ![r.job] = UpdatedRow(r)] ELSE jobsT
         /\ requests' = (requests (-) SetToBag({r})) (+)
              SetToBag({Reply(r, outcome \notin {"ok", "none"}, Null, << >>)})
  /\ UNCHANGED <<users, profiles, contractorsT, contractorSeq, jobSeq>>
  /\ UNCHANGED <<session, userRole, loading, jobs, contractors,
                 getSessionPending, signingOut, loads, calls>>

\* handleAssignJob and handleUpdateJobStatus after their await (lines
\* 141..144 and 150..153): an error is answered by fetchJobs()
UpdateReplied(r) ==
  /\ BagIn(r, requests) /\ r.kind \in {"assign", "status"} /\ r.stage = "replied"
  /\ requests' = IF r.error
                   THEN (requests (-) SetToBag({r})) (+)
                          SetToBag({Refetch(session, r.kind)})
                   ELSE requests (-) SetToBag({r})
  /\ UNCHANGED <<session, userRole, loading, jobs, contractors,
                 getSessionPending, signingOut, loads, calls>>
  /\ UNCHANGED dbVars

\* the server runs the jobs query of a re-fetch
ServeRefetch(r, net) ==
  /\ BagIn(r, requests) /\ r.kind = "fetchJobs" /\ r.stage = "sent"
  /\ requests' = (requests (-) SetToBag({r})) (+)
       SetToBag({IF net THEN Reply(r, FALSE, Null, JobsQuery(r.caller))
                        ELSE Reply(r, TRUE, Null, << >>)})
  /\ UNCHANGED <<session, userRole, loading, jobs, contractors,
                 getSessionPending, signingOut, loads, calls>>
  /\ UNCHANGED dbVars

\* fetchJobs after its await (lines 74..90), called from an error branch
Refetched(r) ==
  /\ BagIn(r, requests) /\ r.kind = "fetchJobs" /\ r.stage = "replied"
  /\ requests' = requests (-) SetToBag({r})
  /\ jobs' = IF r.error THEN << >> ELSE processedJobs(r.rows)
  /\ UNCHANGED <<session, userRole, loading, contractors,
                 getSessionPending, signingOut, loads, calls>>
  /\ UNCHANGED dbVars

----------------------------------------------------------------------------
(* The controller mounted against a database in use: a property manager   *)
(* u1, a contractor u2 linked to the first sample contractor, a job in    *)
(* progress with that contractor and a pending job                        *)
(* The controller is taken after its mount effects have run: with no      *)
(* session the load effect (lines 113..119) has cleared the loading flag   *)
(* that useState(true) sets, and getSession() is pending                   *)

InitApp ==
  /\ users = {"u1", "u2"}
  /\ profiles = ("u1" :> "pm") @@ ("u2" :> "contractor")
  /\ contractorsT = [SampleContractors EXCEPT ![1].user_id = "u2"]
  /\ contractorSeq = 3
  /\ jobsT = (1 :> [unit |-> "101", status |-> "In Progress", contractor_id |-> 1])
          @@ (2 :> [unit |-> "101", status |-> "Pending", contractor_id |-> NullId])
  /\ jobSeq = 2
  /\ session = Null
  /\ userRole = Null
  /\ loading = FALSE
  /\ jobs = << >>
  /\ contractors = << >>
  /\ getSessionPending = TRUE
  /\ signingOut = FALSE
  /\ requests = EmptyBag
  /\ loads = EmptyBag
  /\ calls = 0

\* arguments of the handlers: the jobs, and two contractors and an id that
\* is no contractor's
JobIdArgs == {1, 2}
ContractorIdArgs == {1, 2, 4}

NextApp ==
  \/ \E s \in users \cup {Null} : GetSessionResolved(s)
  \/ \E u \in users : SignedIn(u)
  \/ TokenRefreshed
  \/ handleSignOut
  \/ SignedOut
  \/ \E jobId \in JobIdArgs, contractorId \in ContractorIdArgs :
       handleAssignJob(jobId, contractorId)
  \/ \E jobId \in JobIdArgs, status \in Statuses :
       handleUpdateJobStatus(jobId, status)
  \/ \E r \in DOMAIN requests, net \in BOOLEAN : ServeRoleLookup(r, net)
  \/ \E r \in DOMAIN requests : fetchUserRole(r)
  \/ \E l \in DOMAIN loads, net \in BOOLEAN : ServeLoadJobs(l, net)
  \/ \E l \in DOMAIN loads, net \in BOOLEAN : ServeLoadContractors(l, net)
  \/ \E l \in DOMAIN loads : fetchJobs(l)
  \/ \E l \in DOMAIN loads : fetchContractors(l)
  \/ \E r \in DOMAIN requests, net \in BOOLEAN : ServeUpdate(r, net)
  \/ \E r \in DOMAIN requests : UpdateReplied(r)
  \/ \E r \in DOMAIN requests, net \in BOOLEAN : ServeRefetch(r, net)
  \/ \E r \in DOMAIN requests : Refetched(r)

SpecApp == InitApp /\ [][NextApp]_vars

----------------------------------------------------------------------------
(* The controller against a database in which an identity has no profile  *)
(* row yet: the script drops and recreates public.profiles (lines 20 and  *)
(* 27), so an identity created before it ran has none until an admin      *)
(* inserts one.  u1 is an admin, u2 is linked to the first sample         *)
(* contractor, which has completed its job                                *)

InitRace ==
  /\ users = {"u1", "u2"}
  /\ profiles = ("u1" :> "admin")
  /\ contractorsT = [SampleContractors EXCEPT ![1].user_id = "u2"]
  /\ contractorSeq = 3
  /\ jobsT = (1 :> [unit |-> "101", status |-> "Completed", contractor_id |-> 1])
  /\ jobSeq = 1
  /\ session = Null
  /\ userRole = Null
  /\ loading = FALSE
  /\ jobs = << >>
  /\ contractors = << >>
  /\ getSessionPending = TRUE
  /\ signingOut = FALSE
  /\ requests = EmptyBag
  /\ loads = EmptyBag
  /\ calls = 0

\* the profile row is inserted from another client
ProfileInserted ==
  /\ \E caller \in users, id \in users, role \in {"contractor"} :
       /\ InsertProfileOutcome(caller, id, role) = "ok"
       /\ InsertProfile(caller, id, role)
  /\ UNCHANGED appVars

NextRace ==
  \/ NextApp
  \/ ProfileInserted

SpecRace == InitRace /\ [][NextRace]_vars

----------------------------------------------------------------------------
(* The controller in the runs in which no update request fails on the way: *)
(* every update reaches the server and its reply reaches the client, so    *)
(* the error branches of the handlers are never taken                      *)

NextReliable ==
  \/ \E s \in users \cup {Null} : GetSessionResolved(s)
  \/ \E u \in users : SignedIn(u)
  \/ TokenRefreshed
  \/ handleSignOut
  \/ SignedOut
  \/ \E jobId \in JobIdArgs, contractorId \in ContractorIdArgs :
       handleAssignJob(jobId, contractorId)
  \/ \E jobId \in JobIdArgs, status \in Statuses :
       handleUpdateJobStatus(jobId, status)
  \/ \E r \in DOMAIN requests, net \in BOOLEAN : ServeRoleLookup(r, net)
  \/ \E r \in DOMAIN requests : fetchUserRole(r)
  \/ \E l \in DOMAIN loads, net \in BOOLEAN : ServeLoadJobs(l, net)
  \/ \E l \in DOMAIN loads, net \in BOOLEAN : ServeLoadContractors(l, net)
  \/ \E l \in DOMAIN loads : fetchJobs(l)
  \/ \E l \in DOMAIN loads : fetchContractors(l)
  \/ \E r \in DOMAIN requests : ServeUpdate(r, TRUE)
  \/ \E r \in DOMAIN requests : UpdateReplied(r)

SpecReliable == InitApp /\ [][NextReliable]_vars

----------------------------------------------------------------------------
(* Properties of the schema and the policies *)

\* the job row is assigned to a contractor row linked to identity uid
AssignedTo(uid, row) ==
  /\ row.contractor_id \in DOMAIN contractorsT
  /\ contractorsT[row.contractor_id].user_id = uid

\* C1: in every reachable database state, an identity whose profile role is
\* contractor reads or updates a job row only if the job's contractor_id
\* references a contractor row whose user_id is that identity; unassigned
\* jobs, jobs of a contractor linked to another identity and jobs of a
\* contractor with no linked identity are neither returned nor updated.
C1_ContractorScope ==
  \A uid \in Identities :
    RoleOf(uid) = "contractor" =>
      \A j \in DOMAIN jobsT :
        /\ j \in SelectJobsRows(uid) => AssignedTo(uid, jobsT[j])
        /\ \A row \in JobRowInputs :
             UpdateJobOutcome(uid, j, row) = "ok" => AssignedTo(uid, jobsT[j])
        /\ ~AssignedTo(uid, jobsT[j]) =>
             /\ j \notin SelectJobsRows(uid)
             /\ \A row \in JobRowInputs : UpdateJobOutcome(uid, j, row) = "none"

\* two contractor identities and a job assigned to the contractor of the
\* first: the first reads and updates it, the second does neither
C1_Witness ==
  \E x \in users, y \in users :
    /\ x # y
    /\ RoleOf(x) = "contractor" /\ RoleOf(y) = "contractor"
    /\ \E j \in DOMAIN jobsT :
         /\ AssignedTo(x, jobsT[j])
         /\ jobsT[j].status = "In Progress"
         /\ j \in SelectJobsRows(x)
         /\ UpdateJobOutcome(x, j, [jobsT[j] EXCEPT !.status = "Pending"]) = "ok"
         /\ j \notin SelectJobsRows(y)
         /\ UpdateJobOutcome(y, j, [jobsT[j] EXCEPT !.status = "Pending"]) = "none"

\* C2: get_all_users and delete_user called by a caller that is not an admin
\* (role pm or contractor, no profile row, unauthenticated) raise the
\* access-denied exception, return no user rows and leave auth.users,
\* profiles, contractors and jobs as they were.
C2_AdminOnlyProcedures ==
  \A caller \in Callers :
    RoleOf(caller) # "admin" =>
      /\ GetAllUsersResult(caller).error = "Only admins can view all users"
      /\ GetAllUsersResult(caller).rows = {}
      /\ DeleteUserError(caller) = "Only admins can delete users"
      /\ \A id \in Identities :
           DeleteUserEffect(caller, id) =
             [users |-> users, profiles |-> profiles,
              contractors |-> contractorsT, jobs |-> jobsT]

\* a pm, a user without a profile row and a linked contractor row: there
\* are rows to return and links a deletion would clear
C2_Witness ==
  \E caller \in users, other \in users :
    /\ caller # other
    /\ RoleOf(caller) = "pm"
    /\ other \notin DOMAIN profiles
    /\ \E c \in DOMAIN contractorsT : contractorsT[c].user_id = caller
    /\ GetAllUsersResult(caller).rows = {}

\* C3: an authenticated identity with no profile row is denied every read,
\* insert, update and delete on jobs and every insert, update and delete on
\* contractors; it may only read contractors, as any authenticated user;
\* also when a contractor row's user_id is that identity.
C3_NoProfileDenied ==
  \A uid \in Identities :
    uid \notin DOMAIN profiles =>
      /\ SelectJobsRows(uid) = {}
      /\ \A row \in NewJobInputs \cup JobRowInputs :
           InsertJobOutcome(uid, row) = "rls"
      /\ \A j \in DOMAIN jobsT :
           /\ \A row \in JobRowInputs : UpdateJobOutcome(uid, j, row) = "none"
           /\ DeleteJobOutcome(uid, j) = "none"
      /\ \A row \in NewContractorInputs :
           InsertContractorOutcome(uid, contractorSeq + 1, row) = "rls"
      /\ \A c \in DOMAIN contractorsT :
           /\ \A row \in ContractorRowInputs(c) :
                UpdateContractorOutcome(uid, c, row) = "none"
           /\ DeleteContractorOutcome(uid, c) = "none"
      /\ SelectContractorsRows(uid) = DOMAIN contractorsT

\* a user whose profile row is gone, linked to a contractor row that a job
\* is assigned to
C3_Witness ==
  \E uid \in users :
    /\ uid \notin DOMAIN profiles
    /\ \E j \in DOMAIN jobsT : AssignedTo(uid, jobsT[j])

\* C4: what the policies permit to a pm is exactly the authorization table:
\* contractors read, create and update of all rows; jobs read all, create
\* any, update any; profiles nothing but reading its own row; and no delete
\* of a contractor row or of a job row.
C4_PmPermissions ==
  \A uid \in Identities :
    RoleOf(uid) = "pm" =>
      /\ SelectContractorsRows(uid) = DOMAIN contractorsT
      /\ \A row \in NewContractorInputs :
           InsertContractorOutcome(uid, contractorSeq + 1, row) # "rls"
      /\ \A c \in DOMAIN contractorsT : \A row \in ContractorRowInputs(c) :
           UpdateContractorOutcome(uid, c, row) \notin {"none", "rls"}
      /\ SelectJobsRows(uid) = DOMAIN jobsT
      /\ \A row \in NewJobInputs : InsertJobOutcome(uid, row) # "rls"
      /\ \A j \in DOMAIN jobsT : \A row \in JobRowInputs :
           UpdateJobOutcome(uid, j, row) \notin {"none", "rls"}
      /\ SelectProfilesRows(uid) = {uid}
      /\ \A id \in Identities, role \in Roles :
           /\ InsertProfileOutcome(uid, id, role) = "rls"
           /\ id \in DOMAIN profiles =>
                /\ UpdateProfileOutcome(uid, id, role) = "none"
                /\ DeleteProfileOutcome(uid, id) = "none"
      /\ \A j \in DOMAIN jobsT : DeleteJobOutcome(uid, j) = "none"
      /\ \A c \in DOMAIN contractorsT : DeleteContractorOutcome(uid, c) = "none"

\* C10: deleting an identity removes its profile row and leaves every
\* contractor row in place, user_id emptied where it referenced the identity
\* and every other column unchanged; deleting a contractor leaves every job
\* row in place, contractor_id emptied where it referenced the contractor and
\* every other column (status included) unchanged.
C10_DeleteEffects ==
  [][ /\ \A id \in users \ users' :
           /\ id \notin DOMAIN profiles'
           /\ DOMAIN contractorsT' = DOMAIN contractorsT
           /\ \A c \in DOMAIN contractorsT :
                contractorsT'[c] =
                  [user_id |-> IF contractorsT[c].user_id = id
                                 THEN Null ELSE contractorsT[c].user_id,
                   name |-> contractorsT[c].name,
                   rating |-> contractorsT[c].rating]
      /\ \A c \in (DOMAIN contractorsT) \ DOMAIN contractorsT' :
           /\ DOMAIN jobsT' = DOMAIN jobsT
           /\ \A j \in DOMAIN jobsT :
                jobsT'[j] =
                  [unit |-> jobsT[j].unit,
                   status |-> jobsT[j].status,
                   contractor_id |-> IF jobsT[j].contractor_id = c
                                       THEN NullId ELSE jobsT[j].contractor_id]
    ]_vars

\* the first sample contractor has been deleted and the job in progress
\* has no contractor; a contractor row inserted with a link has lost it
C10_Witness ==
  /\ 1 \notin DOMAIN contractorsT
  /\ \E j \in DOMAIN jobsT :
       jobsT[j].contractor_id = NullId /\ jobsT[j].status = "In Progress"
  /\ users # Identities

\* C11: every identity in auth.users has exactly one profile row (profiles
\* is keyed by id, so: has a profile row), and a profile row disappears only
\* in a step that deletes its identity
C11_OneProfilePerIdentity ==
  [][/\ \A u \in users' : u \in DOMAIN profiles'
     /\ \A p \in DOMAIN profiles :
          p \notin DOMAIN profiles' => (p \in users /\ p \notin users')]_vars

\* the CHECK constraints hold of the rows stored
ChecksHold ==
  /\ \A p \in DOMAIN profiles : profiles[p] \in {"pm", "contractor", "admin"}
  /\ \A c \in DOMAIN contractorsT :
       \A r \in contractorsT[c].rating : 0 <= r /\ r <= 50
  /\ \A j \in DOMAIN jobsT :
       jobsT[j].status \in {"Pending", "In Progress", "Completed"}

\* C12: the rows stored satisfy the role, rating and status constraints, and
\* an insert or update, by any role, of a value outside them (or a signup
\* with such a role claim) leaves the tables as they were
C12_ChecksEnforced ==
  [][/\ ChecksHold'
     /\ \A caller \in Identities :
          /\ \A id \in Identities, role \in RoleClaims \ {"pm", "contractor", "admin"} :
               (InsertProfile(caller, id, role) \/ UpdateProfile(caller, id, role)
                  \/ SignUp(id, role))
               => (profiles' = profiles /\ users' = users)
          /\ \A row \in NewContractorInputs :
               (InsertContractor(caller, row) /\ row.rating = {51})
               => contractorsT' = contractorsT
          /\ \A id \in DOMAIN contractorsT \cap ContractorIdInputs :
               \A row \in ContractorRowInputs(id) :
                 (UpdateContractor(caller, id, row) /\ row.rating = {51})
                 => contractorsT' = contractorsT
          /\ \A row \in NewJobInputs :
               (InsertJob(caller, row) /\ row.status = "Cancelled")
               => jobsT' = jobsT
          /\ \A id \in DOMAIN jobsT, row \in JobRowInputs :
               (UpdateJob(caller, id, row) /\ row.status = "Cancelled")
               => jobsT' = jobsT]_vars

\* an admin is signed up, a contractor row with the greatest rating allowed
\* has been inserted after the script, and a job row is stored: the state in
\* which the admin's inserts and updates of values outside the constraints
\* are run
C12_Witness ==
  /\ \E a \in users : a \in DOMAIN profiles /\ profiles[a] = "admin"
  /\ \E c \in DOMAIN contractorsT : c > 3 /\ contractorsT[c].rating = {50}
  /\ jobsT # Empty

\* C13: a signup with a role claim in {pm, contractor, admin} adds the
\* profile row (new identity, claimed role) and changes no other profile row
C13_SignupCreatesProfile ==
  [][\A id \in Identities, claim \in {"pm", "contractor", "admin"} :
       SignUp(id, claim)
       => /\ id \notin DOMAIN profiles
          /\ users' = users \cup {id}
          /\ DOMAIN profiles' = DOMAIN profiles \cup {id}
          /\ profiles'[id] = claim
          /\ \A p \in DOMAIN profiles : profiles'[p] = profiles[p]]_vars

\* both identities have signed up, one as pm and one as admin
C13_Witness ==
  /\ users = Identities
  /\ \E u \in users, v \in users :
       /\ u \in DOMAIN profiles /\ profiles[u] = "pm"
       /\ v \in DOMAIN profiles /\ profiles[v] = "admin"

----------------------------------------------------------------------------
(* Properties of the controller *)

\* the local job list holds, for every job it lists, the contractor and the
\* status of the server's row
LocalJobsOnServer ==
  \A i \in 1..Len(jobs) :
    /\ jobs[i].id \in DOMAIN jobsT
    /\ jobs[i].contractor_id = jobsT[jobs[i].id].contractor_id
    /\ jobs[i].status = jobsT[jobs[i].id].status

\* C5: when the re-fetch that answers a failed assignment request has been
\* applied and no request and no load is in flight any more, the local job
\* list holds no contractor assignment and no status the server does not hold
C5_ReconciledAfterFailure ==
  [][\A r \in DOMAIN requests :
       (/\ r.kind = "fetchJobs" /\ r.cause = "assign"
        /\ Refetched(r)
        /\ requests' = EmptyBag /\ loads' = EmptyBag)
       => LocalJobsOnServer']_vars

\* C6: handleAssignJob of a job listed as Pending and a listed contractor
\* sets the job's contractor_id, contractor_name and status in the local
\* list while the server's row is still untouched, and sends a request for
\* that job id with contractor_id = contractorId and status 'In Progress';
\* the server, running the request, changes these two columns of that row
\* and nothing else
C6_OptimisticAssign ==
  [][/\ \A jobId \in JobIdArgs, contractorId \in ContractorIdArgs :
          (/\ handleAssignJob(jobId, contractorId)
           /\ \E i \in 1..Len(jobs) : jobs[i].id = jobId /\ jobs[i].status = "Pending"
           /\ \E k \in 1..Len(contractors) : contractors[k].id = contractorId)
          => /\ Len(jobs') = Len(jobs)
             /\ \A i \in 1..Len(jobs) :
                  IF jobs[i].id = jobId
                    THEN /\ jobs'[i].contractor_id = contractorId
                         /\ jobs'[i].status = "In Progress"
                         /\ \E k \in 1..Len(contractors) :
                              /\ contractors[k].id = contractorId
                              /\ jobs'[i].contractor_name = contractors[k].name
                    ELSE jobs'[i] = jobs[i]
             /\ jobsT' = jobsT
             /\ \E r \in DOMAIN requests' :
                  /\ requests' = requests (+) SetToBag({r})
                  /\ r.kind = "assign" /\ r.stage = "sent"
                  /\ r.job = jobId
                  /\ r.contractor_id = contractorId
                  /\ r.status = "In Progress"
     /\ \A r \in DOMAIN requests :
          (r.kind = "assign" /\ ServeUpdate(r, TRUE) /\ jobsT' # jobsT)
          => /\ DOMAIN jobsT' = DOMAIN jobsT
             /\ \A j \in DOMAIN jobsT :
                  IF j = r.job
                    THEN /\ jobsT'[j].contractor_id = r.contractor_id
                         /\ jobsT'[j].status = "In Progress"
                         /\ jobsT'[j].unit = jobsT[j].unit
                    ELSE jobsT'[j] = jobsT[j]]_vars

\* an assignment request is on its way, the local list shows the job in
\* progress with the contractor and the server's row is still Pending
C6_Witness ==
  \E r \in DOMAIN requests :
    /\ r.kind = "assign" /\ r.stage = "sent"
    /\ r.job \in DOMAIN jobsT
    /\ jobsT[r.job].status = "Pending"
    /\ \E i \in 1..Len(jobs) :
         /\ jobs[i].id = r.job
         /\ jobs[i].contractor_id = r.contractor_id
         /\ jobs[i].status = "In Progress"

\* session, role and lists as sign-out leaves them
SignedOutState ==
  /\ session = Null
  /\ userRole = Null
  /\ jobs = << >>
  /\ contractors = << >>

\* C7: the completion of handleSignOut leaves session and role null and the
\* lists empty, and every later step that does not establish a session
\* keeps them so.  (No request is sent before the first session, so a step
\* that leaves SignedOutState without a new session follows a sign-out.)
C7_SignOutClears ==
  [][/\ SignedOut => SignedOutState'
     /\ (SignedOutState /\ session' = Null) => SignedOutState']_vars

\* C8: while a session and a role are held, the loading flag is set as long
\* as a fetch of a started load is outstanding
C8_LoadingUntilJoined ==
  (session # Null /\ userRole # Null /\ Loading > 0) => loading

\* the position of (session, role) in the spec's state machine
Phase ==
  IF session = Null
    THEN IF userRole = Null THEN "unauthenticated" ELSE "role without session"
    ELSE IF userRole = Null THEN "role-unknown" ELSE "role-resolved"

PhaseTransitions ==
  { <<"unauthenticated", "role-unknown">>,
    <<"role-unknown", "role-resolved">>,
    <<"role-unknown", "unauthenticated">>,
    <<"role-resolved", "unauthenticated">> }

\* C9: (session, role) only moves from unauthenticated to role-unknown, from
\* role-unknown to role-resolved, and from either back to unauthenticated;
\* there is no state with a role and no session
C9_SessionRoleMachine ==
  [][/\ Phase' # Phase => <<Phase, Phase'>> \in PhaseTransitions
     /\ Phase' # "role without session"]_vars

\* C14: with a session held, a role lookup that returns no row leaves the
\* role null, starts no load and leaves the loading flag false; every
\* session-change event that delivers a session sends a role lookup; the
\* lookup the server runs once the caller's profile row exists returns that
\* row's role, and taking that reply sets the role
C14_MissingRoleTransient ==
  [][/\ \A r \in DOMAIN requests :
          (fetchUserRole(r) /\ r.error /\ session # Null)
          => (userRole' = Null /\ loads' = loads /\ loading' = FALSE)
     /\ ((\E s \in users : GetSessionResolved(s))
           \/ (\E u \in users : SignedIn(u)) \/ TokenRefreshed)
          => requests' = requests (+) SetToBag({RoleLookup(session')})
     /\ \A r \in DOMAIN requests :
          (r.kind = "role" /\ r.caller \in DOMAIN profiles /\ ServeRoleLookup(r, TRUE))
          => BagIn(Reply(r, FALSE, profiles[r.caller], << >>), requests')
     /\ \A r \in DOMAIN requests :
          (fetchUserRole(r) /\ ~r.error) => userRole' = r.role]_vars

\* u2, who had no profile row, holds a session with the role resolved and
\* the jobs loaded
C14_Witness ==
  /\ session = "u2"
  /\ "u2" \in DOMAIN profiles
  /\ userRole = profiles["u2"]
  /\ ~loading
  /\ jobs # << >>

\* C15: handleUpdateJobStatus(jobId, s) sets the status of the listed job
\* to s while the server's row is untouched and sends one update of status
\* for that job id; the server changes only that column of that row; a
\* reply with an error is answered by one fetchJobs request and the update
\* is not sent again; a reply without an error is answered by no request
C15_StatusUpdate ==
  [][/\ \A jobId \in JobIdArgs, status \in Statuses :
          handleUpdateJobStatus(jobId, status)
          => /\ Len(jobs') = Len(jobs)
             /\ \A i \in 1..Len(jobs) :
                  IF jobs[i].id = jobId
                    THEN jobs'[i] = [jobs[i] EXCEPT !.status = status]
                    ELSE jobs'[i] = jobs[i]
             /\ jobsT' = jobsT
             /\ loads' = loads
             /\ \E r \in DOMAIN requests' :
                  /\ requests' = requests (+) SetToBag({r})
                  /\ r.kind = "status" /\ r.stage = "sent"
                  /\ r.job = jobId /\ r.status = status
     /\ \A r \in DOMAIN requests :
          (r.kind = "status" /\ ServeUpdate(r, TRUE) /\ jobsT' # jobsT)
          => /\ DOMAIN jobsT' = DOMAIN jobsT
             /\ \A j \in DOMAIN jobsT :
                  IF j = r.job
                    THEN jobsT'[j] = [jobsT[j] EXCEPT !.status = r.status]
                    ELSE jobsT'[j] = jobsT[j]
     /\ \A r \in DOMAIN requests :
          (r.kind = "status" /\ UpdateReplied(r))
          => /\ loads' = loads
             /\ jobs' = jobs
             /\ IF r.error
                  THEN \E f \in DOMAIN requests' :
                         /\ f.kind = "fetchJobs" /\ f.stage = "sent"
                         /\ requests' = (requests (-) SetToBag({r})) (+) SetToBag({f})
                  ELSE requests' = requests (-) SetToBag({r})]_vars

\* a status update has failed: the local list still shows the status that
\* was not stored, and the one request in flight is the re-fetch
C15_Witness ==
  /\ \E f \in DOMAIN requests :
       /\ f.kind = "fetchJobs" /\ f.cause = "status" /\ f.stage = "sent"
       /\ requests = SetToBag({f})
  /\ \E i \in 1..Len(jobs) :
       jobs[i].id \in DOMAIN jobsT /\ jobs[i].status # jobsT[jobs[i].id].status

\* C16: handleAssignJob changes the status of no job that is not Pending:
\* a listed job that is Completed, or In Progress, keeps its status in the
\* local list, and the request sent carries no other status for it
C16_AssignOnlyFromPending ==
  [][\A jobId \in JobIdArgs, contractorId \in ContractorIdArgs :
       handleAssignJob(jobId, contractorId)
       => \A i \in 1..Len(jobs) :
            (jobs[i].id = jobId /\ jobs[i].status # "Pending")
            => /\ jobs'[i].status = jobs[i].status
               /\ \A r \in DOMAIN requests' :
                    (r.kind = "assign" /\ r.job = jobId /\ r.stage = "sent")
                    => r.status = jobs[i].status]_vars

\* C17: in the runs of one client in which every update request succeeds,
\* whenever no request and no load is in flight each job of the local list
\* has the contractor_id and the status of the server's row
C17_LocalMatchesServer ==
  (requests = EmptyBag /\ loads = EmptyBag) => LocalJobsOnServer

\* C18: a role held by the controller is the profile role of the identity
\* of the current session
C18_RoleOfCurrentSession ==
  userRole # Null
  => /\ session # Null
     /\ session \in DOMAIN profiles
     /\ userRole = profiles[session]

\* the ids of the contractors in the local list
ListedContractors == {contractors[k].id : k \in 1..Len(contractors)}

\* what a handler leaves alone: the contractors list, the session, the role,
\* the length and the order of the job list and every job but jobId
HandlerFrame(jobId) ==
  /\ contractors' = contractors
  /\ session' = session
  /\ userRole' = userRole
  /\ Len(jobs') = Len(jobs)
  /\ \A i \in 1..Len(jobs) :
       /\ jobs'[i].id = jobs[i].id
       /\ jobs[i].id # jobId => jobs'[i] = jobs[i]

\* C19: handleAssignJob with a contractor id that is not in the local list
\* changes no job and sends no request; both handlers change no more than
\* the job whose id is jobId; and their maps, applied with a job id that is
\* not in the list, return the list as it is
C19_HandlerFrame ==
  [][/\ \A jobId \in JobIdArgs, contractorId \in ContractorIdArgs :
          handleAssignJob(jobId, contractorId)
          => /\ HandlerFrame(jobId)
             /\ contractorId \notin ListedContractors
                  => (jobs' = jobs /\ requests' = requests /\ loads' = loads)
     /\ \A jobId \in JobIdArgs, status \in Statuses :
          handleUpdateJobStatus(jobId, status) => HandlerFrame(jobId)
     /\ \A jobId \in JobIdArgs \ ListedJobs :
          /\ \A k \in 1..Len(contractors) :
               AssignedJobs(jobs, jobId, contractors[k]) = jobs
          /\ \A status \in Statuses :
               StatusUpdatedJobs(jobs, jobId, status) = jobs]_vars

\* job 1 has been handed to contractor 2 and the request is on its way; the
\* other job of the list is as it was loaded
C19_Witness ==
  /\ \E r \in DOMAIN requests :
       r.kind = "assign" /\ r.stage = "sent" /\ r.job = 1 /\ r.contractor_id = 2
  /\ Len(jobs) = 2
  /\ \E i \in 1..Len(jobs) : jobs[i].id = 1 /\ jobs[i].contractor_id = 2
  /\ \E i \in 1..Len(jobs) :
       jobs[i].id = 2 /\ jobs[i].contractor_id = NullId /\ jobs[i].status = "Pending"

====
